---- MODULE Spec2Model ----
(***************************************************************************)
(* attendance_whatsapp.py: the portal pipeline get_attendance(), the       *)
(* parser parse_attendance_html() and the routing of the result in main(). *)
(* A Python str is a tuple of one-character strings; a float is a          *)
(* fixed-point integer with FracDigits decimal places.                     *)
(***************************************************************************)
EXTENDS Integers, Sequences, FiniteSets, TLC

\* ------------------------------------------------------------------ bounds
FracDigits == 3
MaxBlocks == 2
MaxItems == 22
MaxRep == 2

\* --------------------------------------------------------------- constants
MAX_TEXT == 400
MAX_SUBJECT == 50
MAX_MATCHES == 20
MAX_RECORDS == 20
GOOD_MIN == 75
WARN_MIN == 65
LABEL_MIN == 4
LABEL_MAX == 80
SEP_MAX == 4
SHORT_TOKENS == 6

\* ------------------------------------------------------------ str helpers
UpperAlpha == <<"A", "B", "C", "D", "E", "F", "G", "H", "I", "J", "K", "L", "M", "N", "O", "P", "Q", "R", "S", "T", "U", "V", "W", "X", "Y", "Z">>
LowerAlpha == <<"a", "b", "c", "d", "e", "f", "g", "h", "i", "j", "k", "l", "m", "n", "o", "p", "q", "r", "s", "t", "u", "v", "w", "x", "y", "z">>
DigitChars == <<"0", "1", "2", "3", "4", "5", "6", "7", "8", "9">>
UpperSet == {UpperAlpha[i] : i \in 1..26}
LowerSet == {LowerAlpha[i] : i \in 1..26}
DigitSet == {DigitChars[i] : i \in 1..10}

IsDigit(c) == c \in DigitSet
IsAlpha(c) == c \in UpperSet \/ c \in LowerSet
IsWordChar(c) == IsAlpha(c) \/ IsDigit(c) \/ c = "_"
IsSpace(c) == c = " "

Min(a, b) == IF a <= b THEN a ELSE b

\* str.lower()
LowerChar(c) ==
    IF c \in UpperSet THEN LowerAlpha[CHOOSE i \in 1..26 : UpperAlpha[i] = c] ELSE c
lower(s) == [i \in 1..Len(s) |-> LowerChar(s[i])]

\* k in s
Contains(s, k) == \E i \in 0..(Len(s) - Len(k)) : SubSeq(s, i + 1, i + Len(k)) = k

\* s.startswith(p)
startswith(s, p) == Len(p) <= Len(s) /\ SubSeq(s, 1, Len(p)) = p

\* s[:n]
Take(s, n) == SubSeq(s, 1, Min(n, Len(s)))

RECURSIVE LeadSpaces(_, _)
LeadSpaces(s, p) == IF p <= Len(s) /\ IsSpace(s[p]) THEN 1 + LeadSpaces(s, p + 1) ELSE 0
RECURSIVE TrailSpaces(_, _)
TrailSpaces(s, p) == IF p >= 1 /\ IsSpace(s[p]) THEN 1 + TrailSpaces(s, p - 1) ELSE 0

\* s.strip()
strip(s) ==
    IF LeadSpaces(s, 1) = Len(s) THEN <<>>
    ELSE SubSeq(s, 1 + LeadSpaces(s, 1), Len(s) - TrailSpaces(s, Len(s)))

\* len(s.split())
RECURSIVE SplitCount(_, _)
SplitCount(s, p) ==
    IF p > Len(s) THEN 0
    ELSE (IF ~IsSpace(s[p]) /\ (p = 1 \/ IsSpace(s[p - 1])) THEN 1 ELSE 0) + SplitCount(s, p + 1)

\* \b between s[i] and s[i+1]
WordBoundary(s, i) ==
    (i >= 1 /\ i <= Len(s) /\ IsWordChar(s[i])) # (i + 1 >= 1 /\ i < Len(s) /\ IsWordChar(s[i + 1]))

RECURSIVE DigitRun(_, _)
DigitRun(s, p) == IF p >= 1 /\ p <= Len(s) /\ IsDigit(s[p]) THEN 1 + DigitRun(s, p + 1) ELSE 0

CharAt(s, p) == IF p >= 1 /\ p <= Len(s) THEN s[p] ELSE ""

\* ------------------------------------------------------------------ float
RECURSIVE Pow10(_)
Pow10(k) == IF k = 0 THEN 1 ELSE 10 * Pow10(k - 1)
Scale == Pow10(FracDigits)

DigitVal(c) == CHOOSE d \in 0..9 : DigitChars[d + 1] = c

RECURSIVE DigitsToInt(_)
DigitsToInt(ds) ==
    IF ds = <<>> THEN 0
    ELSE DigitsToInt(SubSeq(ds, 1, Len(ds) - 1)) * 10 + DigitVal(ds[Len(ds)])

RECURSIVE PadRight(_, _)
PadRight(ds, k) == IF Len(ds) >= k THEN SubSeq(ds, 1, k) ELSE PadRight(ds \o <<"0">>, k)

\* float(tok) for tok matching \d+\.?\d*
float(tok) ==
    LET d == IF \E i \in 1..Len(tok) : tok[i] = "."
             THEN CHOOSE i \in 1..Len(tok) : tok[i] = "."
             ELSE Len(tok) + 1
    IN  DigitsToInt(SubSeq(tok, 1, d - 1)) * Scale
          + DigitsToInt(PadRight(SubSeq(tok, d + 1, Len(tok)), FracDigits))

RECURSIVE IntStr(_)
IntStr(n) == IF n < 10 THEN <<DigitChars[n + 1]>> ELSE IntStr(n \div 10) \o <<DigitChars[(n % 10) + 1]>>

RECURSIVE PadStr(_, _)
PadStr(f, k) == IF k = 0 THEN <<>> ELSE PadStr(f \div 10, k - 1) \o <<DigitChars[(f % 10) + 1]>>

RECURSIVE StripZeros(_)
StripZeros(s) ==
    IF Len(s) > 1 /\ s[Len(s)] = "0" THEN StripZeros(SubSeq(s, 1, Len(s) - 1)) ELSE s

\* str(x) of a float x, as the f-strings format it
FloatStr(v) == IntStr(v \div Scale) \o <<".">> \o StripZeros(PadStr(v % Scale, FracDigits))

\* ---------------------------------------------------------------- regexes
NoMatch == <<>>

\* the (n, dot, m) splits of \d{1,3}\.?\d*\b at p that end on a word boundary
PctSplits(s, p) ==
    UNION { UNION { { <<n, d, m>> : m \in { k \in 0..DigitRun(s, p + n + d) :
                                                WordBoundary(s, p + n + d + k - 1) } }
                    : d \in { e \in 0..1 : e = 1 => CharAt(s, p + n) = "." } }
            : n \in 1..Min(3, DigitRun(s, p)) }

\* greedy quantifiers: the longest \d{1,3}, then the dot, then the longest \d*
Prefer(t, u) ==
    \/ t[1] > u[1]
    \/ t[1] = u[1] /\ t[2] > u[2]
    \/ t[1] = u[1] /\ t[2] = u[2] /\ t[3] >= u[3]

PctStarts(s) ==
    { p \in 1..Len(s) : IsDigit(s[p]) /\ WordBoundary(s, p - 1) /\ PctSplits(s, p) # {} }

\* re.search(r'\(?\b(\d{1,3}\.?\d*)\b\)?\s*%?', text).group(1), or NoMatch
PctMatch(s) ==
    IF PctStarts(s) = {} THEN NoMatch
    ELSE LET p == CHOOSE q \in PctStarts(s) : \A r \in PctStarts(s) : q <= r
             t == CHOOSE x \in PctSplits(s, p) : \A y \in PctSplits(s, p) : Prefer(x, y)
         IN  SubSeq(s, p, p + t[1] + t[2] + t[3] - 1)

\* the token \d{1,3}\.?\d* taken greedily at p
NumberAt(s, p) ==
    LET n == Min(3, DigitRun(s, p))
        d == IF CharAt(s, p + n) = "." THEN 1 ELSE 0
        m == DigitRun(s, p + n + d)
    IN  SubSeq(s, p, p + n + d + m - 1)

\* re.search(r'(\d{1,3}\.?\d*)\s*%?', last).group(1), or NoMatch
CellMatch(s) ==
    IF \A p \in 1..Len(s) : ~IsDigit(s[p]) THEN NoMatch
    ELSE NumberAt(s, CHOOSE p \in 1..Len(s) : IsDigit(s[p]) /\ \A q \in 1..(p - 1) : ~IsDigit(s[q]))

\* re.search(r'\battendance\b', text, re.I)
kw_attendance == <<"a", "t", "t", "e", "n", "d", "a", "n", "c", "e">>
HasAttendanceWord(s) ==
    \E i \in 0..(Len(s) - Len(kw_attendance)) :
        /\ lower(SubSeq(s, i + 1, i + Len(kw_attendance))) = kw_attendance
        /\ WordBoundary(s, i)
        /\ WordBoundary(s, i + Len(kw_attendance))

HasPercent(s) == \E i \in 1..Len(s) : s[i] = "%"

IsLabelChar(c) == IsAlpha(c) \/ IsDigit(c) \/ c = "-" \/ c = "&" \/ IsSpace(c)
IsSepChar(c) == c = ":" \/ c = "-" \/ IsSpace(c)

RECURSIVE LabelRun(_, _)
LabelRun(s, p) == IF p <= Len(s) /\ IsLabelChar(s[p]) THEN 1 + LabelRun(s, p + 1) ELSE 0
RECURSIVE SepRun(_, _)
SepRun(s, p) == IF p <= Len(s) /\ IsSepChar(s[p]) THEN 1 + SepRun(s, p + 1) ELSE 0

\* (\d{1,3}\.?\d*)\s*% at q: the end of the match, or 0
PercentEnd(s, q) ==
    IF DigitRun(s, q) = 0 THEN 0
    ELSE LET e == q + Len(NumberAt(s, q))
             w == LeadSpaces(s, e)
         IN  IF CharAt(s, e + w) = "%" THEN e + w ELSE 0

\* the (label length, separator length) splits of the free-text regex at i
LabelSplits(s, i) ==
    UNION { { <<a, sp>> : sp \in { k \in 1..Min(SEP_MAX, SepRun(s, i + a)) :
                                       PercentEnd(s, i + a + k) # 0 } }
            : a \in LABEL_MIN..Min(LABEL_MAX, LabelRun(s, i)) }

\* re.findall(r'([A-Za-z0-9\-&\s]{4,80})[:\-\s]{1,4}(\d{1,3}\.?\d*)\s*%', text) from i
RECURSIVE FindAll(_, _)
FindAll(s, i) ==
    IF i > Len(s) THEN <<>>
    ELSE IF LabelSplits(s, i) = {} THEN FindAll(s, i + 1)
    ELSE LET t == CHOOSE x \in LabelSplits(s, i) :
                      \A y \in LabelSplits(s, i) :
                          x[1] > y[1] \/ (x[1] = y[1] /\ x[2] >= y[2])
             q == i + t[1] + t[2]
         IN  <<[subj |-> SubSeq(s, i, i + t[1] - 1), pct |-> NumberAt(s, q)]>>
               \o FindAll(s, PercentEnd(s, q) + 1)

\* ------------------------------------------------------- parsed documents
\* BeautifulSoup's tree, flat: a document is a sequence of blocks, a block is
\* an element with text or a table of rows of cells.
Block(tag, text) == [tag |-> tag, text |-> text, rows |-> <<>>]
Table(rows) == [tag |-> "table", text |-> <<>>, rows |-> rows]
Cell(tag, text, bold) == [tag |-> tag, text |-> text, bold |-> bold]

BODY == <<0, 0>>

RECURSIVE CellNodes(_, _, _)
CellNodes(b, r, cells) ==
    IF cells = <<>> THEN <<>>
    ELSE <<[tag |-> Head(cells).tag, text |-> Head(cells).text,
            parent |-> <<b, r>>, bold |-> Head(cells).bold]>>
           \o CellNodes(b, r, Tail(cells))

RECURSIVE RowNodes(_, _, _)
RowNodes(b, rows, r) ==
    IF r > Len(rows) THEN <<>> ELSE CellNodes(b, r, rows[r]) \o RowNodes(b, rows, r + 1)

\* the text-bearing elements of the document, in document order
RECURSIVE Nodes(_, _)
Nodes(doc, b) ==
    IF b > Len(doc) THEN <<>>
    ELSE (IF doc[b].tag = "table" THEN RowNodes(b, doc[b].rows, 1)
          ELSE <<[tag |-> doc[b].tag, text |-> doc[b].text, parent |-> BODY,
                  bold |-> doc[b].tag \in {"strong", "b"}]>>)
         \o Nodes(doc, b + 1)

\* parent.find(['strong', 'b']): the index of the first bold node under the parent, or 0
ParentBold(nodes, k) ==
    LET under == { j \in 1..Len(nodes) :
                     nodes[j].bold /\ (nodes[k].parent = BODY \/ nodes[j].parent = nodes[k].parent) }
    IN  IF under = {} THEN 0 ELSE CHOOSE j \in under : \A i \in under : j <= i

\* elem.find_previous(string=True): the nearest text before the element, or <<>>
PrevString(nodes, k) ==
    LET before == { j \in 1..(k - 1) : nodes[j].text # <<>> }
    IN  IF before = {} THEN <<>>
        ELSE nodes[CHOOSE j \in before : \A i \in before : j >= i].text

\* soup.get_text(" ", strip=True)
RECURSIVE PageText(_, _)
PageText(nodes, k) ==
    IF k > Len(nodes) THEN <<>>
    ELSE LET t == strip(nodes[k].text)
             rest == PageText(nodes, k + 1)
         IN  IF t = <<>> THEN rest
             ELSE IF rest = <<>> THEN t
             ELSE t \o <<" ">> \o rest

\* ---------------------------------------------------- parse_attendance_html
SCAN_TAGS == {"span", "label", "div", "td", "th"}
PLACEHOLDER == <<"S", "u", "b", "j", "e", "c", "t">>

Record(subj, pct) == [subject |-> subj, percentage |-> pct]

\* line 319: the element is taken as an attendance figure
Accepts(text) ==
    \/ PctMatch(text) # NoMatch /\ HasPercent(text)
    \/ HasAttendanceWord(text)
    \/ HasPercent(text) /\ SplitCount(text, 1) <= SHORT_TOKENS

\* lines 322-337: the subject of an accepted element
SubjectOf(nodes, k) ==
    LET s == ParentBold(nodes, k)
        prev_text == strip(PrevString(nodes, k))
    IN  IF s # 0 /\ strip(nodes[s].text) # <<>> THEN strip(nodes[s].text)
        ELSE IF prev_text # <<>> /\ ~IsDigit(prev_text[1]) THEN Take(prev_text, MAX_SUBJECT)
        ELSE PLACEHOLDER

\* Method 1: the element scan; raised when pct_match is None at line 321
RECURSIVE ElementScan(_, _, _)
ElementScan(nodes, k, acc) ==
    IF k > Len(nodes) THEN [data |-> acc, raised |-> FALSE]
    ELSE LET text == strip(nodes[k].text)
         IN  IF nodes[k].tag \notin SCAN_TAGS \/ text = <<>> \/ Len(text) > MAX_TEXT
                  \/ ~Accepts(text)
             THEN ElementScan(nodes, k + 1, acc)
             ELSE IF PctMatch(text) = NoMatch THEN [data |-> acc, raised |-> TRUE]
             ELSE ElementScan(nodes, k + 1,
                              Append(acc, Record(SubjectOf(nodes, k), float(PctMatch(text)))))

RECURSIVE RowScan(_, _, _)
RowScan(rows, r, acc) ==
    IF r > Len(rows) THEN acc
    ELSE LET cols == [c \in 1..Len(rows[r]) |-> strip(rows[r][c].text)]
             m == IF Len(cols) >= 2 THEN CellMatch(cols[Len(cols)]) ELSE NoMatch
         IN  RowScan(rows, r + 1,
                     IF m # NoMatch
                     THEN Append(acc, Record(Take(cols[1], MAX_SUBJECT), float(m)))
                     ELSE acc)

\* Method 2: the table scan, rows[1:] of every table
RECURSIVE TableScan(_, _, _)
TableScan(doc, b, acc) ==
    IF b > Len(doc) THEN acc
    ELSE TableScan(doc, b + 1,
                   IF doc[b].tag = "table" THEN RowScan(doc[b].rows, 2, acc) ELSE acc)

\* Method 3: every match of the free-text regex
TextMatches(doc) ==
    LET ms == FindAll(PageText(Nodes(doc, 1), 1), 1)
    IN  [i \in 1..Len(ms) |-> Record(Take(strip(ms[i].subj), MAX_SUBJECT), float(ms[i].pct))]

\* matches[:20]
CapMatches(ms) == Take(ms, MAX_MATCHES)

\* line 368: key = f"{it['subject']}-{it['percentage']}"
DedupKey_subject_only(it) == it.subject
DedupKey(it) == it.subject \o <<"-">> \o FloatStr(it.percentage)

\* lines 365-371
RECURSIVE Dedup(_, _, _)
Dedup(data, seen, acc) ==
    IF data = <<>> THEN acc
    ELSE IF DedupKey(Head(data)) \notin seen
         THEN Dedup(Tail(data), seen \cup {DedupKey(Head(data))}, Append(acc, Head(data)))
         ELSE Dedup(Tail(data), seen, acc)

\* line 372: unique[:20]
Trim_last(u) == SubSeq(u, Len(u) - Min(MAX_RECORDS, Len(u)) + 1, Len(u))
Trim(u) == Take(u, MAX_RECORDS)

\* line 382
Tier_strict(pct) ==
    IF pct > GOOD_MIN * Scale THEN "GOOD" ELSE (IF pct >= WARN_MIN * Scale THEN "WARN" ELSE "CRITICAL")
Tier(pct) ==
    IF pct >= GOOD_MIN * Scale THEN "GOOD" ELSE (IF pct >= WARN_MIN * Scale THEN "WARN" ELSE "CRITICAL")

RECURSIVE Sum(_)
Sum(data) == IF data = <<>> THEN 0 ELSE Head(data).percentage + Sum(Tail(data))

\* the strings get_attendance() and parse_attendance_html() return, as their
\* leading words; an emoji is written as its name
MSG_REPORT == <<"BOOKS", "*MGIT", "Attendance", "Report*">>
MSG_NOT_FOUND == <<"WARNING", "Could", "not", "extract", "attendance", "data.">>

Result(head, lines, avg) == [head |-> head, lines |-> lines, avg |-> avg]
NoResult == Result(<<>>, <<>>, 0)

\* lines 375-387
BuildMessage(data) ==
    Result(MSG_REPORT,
           [i \in 1..Len(data) |->
               [emoji |-> Tier(data[i].percentage), subj |-> data[i].subject,
                pct |-> data[i].percentage]],
           Sum(data) \div Len(data))

\* ------------------------------------------------------------ input pages
HeaderRow == <<Cell("th", <<"S", "u", "b", "j", "e", "c", "t">>, FALSE), Cell("th", <<"P", "e", "r", "c", "e", "n", "t">>, FALSE)>>
Row(subj, pct) == <<Cell("td", subj, FALSE), Cell("td", pct, FALSE)>>

SampleBlocks ==
    { Block("p", <<"M", "a", "t", "h", "s">>),
      Block("span", <<"8", "2", "%">>),
      Block("span", <<"4", "0", "4", " ", "%">>),
      Block("span", <<"7", "5", ".", "0", "%">>),
      Block("span", <<"6", "5", "%">>),
      Block("label", <<"A", "t", "t", "e", "n", "d", "a", "n", "c", "e", " ", ":", " ", "(", "7", "4", ".", "6", ")">>),
      Block("div", <<"A", "t", "t", "e", "n", "d", "a", "n", "c", "e">>),
      Block("b", <<"A", "-", "1">>),
      Block("p", <<"C", "h", "e", "m", ":", " ", "7", "4", ".", "9", "%", " ", "P", "h", "y", "s", ":", " ", "6", "4", ".", "9", "%">>),
      Block("p", <<"C", "o", "d", "e", " ", "4", "0", "4", "%">>),
      Table(<<HeaderRow, Row(<<"M", "a", "t", "h", "s">>, <<"8", "2">>)>>),
      Table(<<HeaderRow, Row(<<"A">>, <<"1", "2">>), Row(<<"A", "1">>, <<"2">>), Row(<<"A">>, <<"1", "2", ".", "0">>)>>),
      Table(<<HeaderRow, Row(<<"L", "a", "b">>, <<"1", "5", "0">>), Row(<<"L", "a", "b">>, <<"1", "5">>)>>) }

SmallDocs == UNION { [1..k -> SampleBlocks] : k \in 0..MaxBlocks }

\* generated fixtures: n items, each distinct item repeated rep times in a row
ItemSubject(j) == <<"S", "u", "b">> \o <<UpperAlpha[(j % 26) + 1]>>
ItemPct(j) == IntStr(60 + j)

RECURSIVE SpanItems(_, _, _)
SpanItems(i, n, rep) ==
    IF i >= n THEN <<>>
    ELSE <<Block("p", ItemSubject(i \div rep)), Block("span", ItemPct(i \div rep) \o <<"%">>)>>
           \o SpanItems(i + 1, n, rep)

RECURSIVE RowItems(_, _, _)
RowItems(i, n, rep) ==
    IF i >= n THEN <<>>
    ELSE <<Row(ItemSubject(i \div rep), ItemPct(i \div rep))>> \o RowItems(i + 1, n, rep)

RECURSIVE TextItems(_, _, _)
TextItems(i, n, rep) ==
    IF i >= n THEN <<>>
    ELSE <<Block("p", ItemSubject(i \div rep) \o <<":", " ">> \o ItemPct(i \div rep) \o <<"%">>)>>
           \o TextItems(i + 1, n, rep)

GenDocs ==
    UNION { { SpanItems(0, n, rep),
              <<Table(<<HeaderRow>> \o RowItems(0, n, rep))>>,
              TextItems(0, n, rep) } : <<n, rep>> \in (0..MaxItems) \X (1..MaxRep) }

ParseDocs == SmallDocs \cup GenDocs

\* ------------------------------------------------------------------ state
VARIABLES
    \* main() and get_attendance()
    pc,                  \* where the run is
    USE_SELENIUM,        \* line 21
    DEV_WHATSAPP_NUMBER, \* line 42: TRUE when set
    netlog,              \* the network operations issued so far, with their outcome
    probe,               \* index of the next candidate login URL to HEAD
    login_url,
    login_resp,          \* the login POST response
    attendance_url,
    attendance,          \* the string get_attendance() returned
    status,              \* the return statement that produced it
    sent,                \* the messages handed to send_whatsapp_message()
    \* parse_attendance_html()
    caller,
    html,
    ppc,
    attendance_data,
    ran,                 \* the strategies that ran, with what each yielded
    matches,             \* Method 3: the regex matches before the cap
    candidates,          \* attendance_data as the deduplication found it
    unique,
    message

pvars == <<pc, USE_SELENIUM, DEV_WHATSAPP_NUMBER, netlog, probe, login_url, login_resp,
           attendance_url, attendance, status, sent, caller>>
qvars == <<html, ppc, attendance_data, ran, matches, candidates, unique, message>>
vars == <<pvars, qvars>>

\* ------------------------------------------- parse_attendance_html, steps
ParserStart(doc) ==
    /\ html' = doc
    /\ ppc' = "method1"
    /\ attendance_data' = <<>>
    /\ ran' = <<>>
    /\ matches' = <<>>
    /\ candidates' = <<>>
    /\ unique' = <<>>
    /\ message' = NoResult

Ran(m, n) == [method |-> m, yielded |-> n]

\* lines 309-337
Method1 ==
    /\ ppc = "method1"
    /\ LET r == ElementScan(Nodes(html, 1), 1, <<>>)
       IN  IF r.raised
           THEN /\ ppc' = "raised"
                /\ UNCHANGED <<attendance_data, ran>>
           ELSE /\ ppc' = "method2"
                /\ attendance_data' = r.data
                /\ ran' = Append(ran, Ran(1, Len(r.data)))
    /\ UNCHANGED <<html, matches, candidates, unique, message, pvars>>

\* line 340: if not attendance_data
TableScanRuns_always == TRUE
TableScanRuns == attendance_data = <<>>

\* lines 339-352
Method2 ==
    /\ ppc = "method2"
    /\ ppc' = "method3"
    /\ IF TableScanRuns
       THEN LET data == TableScan(html, 1, attendance_data)
            IN  /\ attendance_data' = data
                /\ ran' = Append(ran, Ran(2, Len(data) - Len(attendance_data)))
       ELSE UNCHANGED <<attendance_data, ran>>
    /\ UNCHANGED <<html, matches, candidates, unique, message, pvars>>

\* line 355: if not attendance_data
TextScanRuns == attendance_data = <<>>

\* lines 354-359
Method3 ==
    /\ ppc = "method3"
    /\ ppc' = "check"
    /\ IF TextScanRuns
       THEN /\ matches' = TextMatches(html)
            /\ attendance_data' = attendance_data \o CapMatches(matches')
            /\ ran' = Append(ran, Ran(3, Len(CapMatches(matches'))))
       ELSE UNCHANGED <<attendance_data, ran, matches>>
    /\ UNCHANGED <<html, candidates, unique, message, pvars>>

\* lines 361-362
NotFound ==
    /\ ppc = "check"
    /\ attendance_data = <<>>
    /\ message' = Result(MSG_NOT_FOUND, <<>>, 0)
    /\ ppc' = "returned"
    /\ UNCHANGED <<html, attendance_data, ran, matches, candidates, unique, pvars>>

\* lines 364-372
DedupTrim ==
    /\ ppc = "check"
    /\ attendance_data # <<>>
    /\ candidates' = attendance_data
    /\ unique' = Dedup(attendance_data, {}, <<>>)
    /\ attendance_data' = Trim(unique')
    /\ ppc' = "build"
    /\ UNCHANGED <<html, ran, matches, message, pvars>>

\* lines 374-387
Build ==
    /\ ppc = "build"
    /\ message' = BuildMessage(attendance_data)
    /\ ppc' = "returned"
    /\ UNCHANGED <<html, attendance_data, ran, matches, candidates, unique, pvars>>

\* parse_attendance_html() called on a page, outside a run of main()
InitParse ==
    /\ pc = "idle"
    /\ USE_SELENIUM = FALSE
    /\ DEV_WHATSAPP_NUMBER = FALSE
    /\ netlog = <<>>
    /\ probe = 0
    /\ login_url = <<>>
    /\ login_resp = [status |-> 0, dom |-> <<>>]
    /\ attendance_url = <<>>
    /\ attendance = NoResult
    /\ status = "none"
    /\ sent = <<>>
    /\ caller = "direct"
    /\ html \in ParseDocs
    /\ ppc = "method1"
    /\ attendance_data = <<>>
    /\ ran = <<>>
    /\ matches = <<>>
    /\ candidates = <<>>
    /\ unique = <<>>
    /\ message = NoResult

NextParse == Method1 \/ Method2 \/ Method3 \/ NotFound \/ DedupTrim \/ Build

SpecParse == InitParse /\ [][NextParse]_vars

\* ================================================== get_attendance(), main()
BASE_URL == <<"h", "t", "t", "p", "s", ":", "/", "/", "m", "g", "i", "t", ".", "w", "i", "n", "n", "o", "u", ".", "n", "e", "t">>
DEFAULT_ATTENDANCE_PATH == <<"/", "s", "t", "u", "d", "e", "n", "t", "/", "a", "t", "t", "e", "n", "d", "a", "n", "c", "e">>
DEFAULT_LOGIN_PATH == <<"/", "l", "o", "g", "i", "n">>
LOGIN_CANDIDATES == <<<<"/", "l", "o", "g", "i", "n">>, <<"/", "a", "c", "c", "o", "u", "n", "t", "s", "/", "l", "o", "g", "i", "n">>, <<"/", "a", "u", "t", "h", "/", "l", "o", "g", "i", "n">>, <<"/", "u", "s", "e", "r", "s", "/", "l", "o", "g", "i", "n">>>>
kw_http == <<"h", "t", "t", "p">>

\* an element of a fetched page: its tag, its text and its attributes
Element(tag, text, attrs) == [tag |-> tag, text |-> text, attrs |-> attrs]
NoAttrs == <<>>

\* elem.get(attr): <<>> stands for None
Attr(el, name) == IF name \in DOMAIN el.attrs THEN el.attrs[name] ELSE <<>>

\* response.text: the texts and attribute values of the page, markup left out
RECURSIVE AttrText(_, _)
AttrText(el, names) ==
    IF names = <<>> THEN <<>>
    ELSE (IF Head(names) \in DOMAIN el.attrs THEN <<" ">> \o el.attrs[Head(names)] ELSE <<>>)
         \o AttrText(el, Tail(names))

ATTR_NAMES == <<"href", "data-href", "data-url", "data-target", "onclick">>

RECURSIVE RawText(_)
RawText(dom) ==
    IF dom = <<>> THEN <<>>
    ELSE AttrText(Head(dom), ATTR_NAMES) \o <<" ">> \o Head(dom).text \o RawText(Tail(dom))

\* line 245: the failure indicators of the login response
kw_invalid == <<"i", "n", "v", "a", "l", "i", "d">>
kw_incorrect == <<"i", "n", "c", "o", "r", "r", "e", "c", "t">>
kw_unauthorized == <<"u", "n", "a", "u", "t", "h", "o", "r", "i", "z", "e", "d">>
kw_login_failed == <<"l", "o", "g", "i", "n", " ", "f", "a", "i", "l", "e", "d">>
kw_error == <<"e", "r", "r", "o", "r">>
LOGIN_FAILURE_WORDS == {kw_invalid, kw_incorrect, kw_unauthorized, kw_login_failed, kw_error}

LoginRejected_without_error(text) ==
    \E k \in LOGIN_FAILURE_WORDS \ {kw_error} : Contains(lower(text), k)
LoginRejected_case_sensitive(text) == \E k \in LOGIN_FAILURE_WORDS : Contains(text, k)
LoginRejected(text) == \E k \in LOGIN_FAILURE_WORDS : Contains(lower(text), k)

\* lines 218-219: the login URL of a form action
LoginUrl(form_action) ==
    IF startswith(form_action, kw_http) THEN form_action
    ELSE IF startswith(form_action, <<"/">>) THEN BASE_URL \o form_action
    ELSE BASE_URL \o <<"/">> \o form_action

\* lines 251-256: the first <a href> whose href or text names attendance, or 0
AnchorHit(dom) ==
    LET hits == { i \in 1..Len(dom) :
                    /\ dom[i].tag = "a"
                    /\ "href" \in DOMAIN dom[i].attrs
                    /\ \/ Contains(lower(dom[i].attrs["href"]), kw_attendance)
                       \/ Contains(lower(strip(dom[i].text)), kw_attendance) }
    IN  IF hits = {} THEN 0 ELSE CHOOSE i \in hits : \A j \in hits : i <= j

HINT_ATTRS == <<"data-href", "data-url", "data-target", "onclick">>

AttrHits(el) ==
    { n \in 1..Len(HINT_ATTRS) :
        Attr(el, HINT_ATTRS[n]) # <<>> /\ Contains(lower(Attr(el, HINT_ATTRS[n])), kw_attendance) }

\* lines 259-267: the first attribute of the first element that names attendance
AttributeHit(dom) ==
    LET hits == { i \in 1..Len(dom) : AttrHits(dom[i]) # {} }
    IN  IF hits = {} THEN <<>>
        ELSE LET i == CHOOSE e \in hits : \A j \in hits : e <= j
                 n == CHOOSE a \in AttrHits(dom[i]) : \A b \in AttrHits(dom[i]) : a <= b
             IN  Attr(dom[i], HINT_ATTRS[n])

\* lines 249-271
ResolveHref_attributes_first(dom) ==
    IF AttributeHit(dom) # <<>> THEN AttributeHit(dom)
    ELSE IF AnchorHit(dom) # 0 /\ dom[AnchorHit(dom)].attrs["href"] # <<>>
         THEN dom[AnchorHit(dom)].attrs["href"]
    ELSE DEFAULT_ATTENDANCE_PATH
ResolveHref(dom) ==
    LET a == AnchorHit(dom)
        attendance_href == IF a # 0 THEN dom[a].attrs["href"] ELSE <<>>
    IN  IF attendance_href # <<>> THEN attendance_href
        ELSE IF AttributeHit(dom) # <<>> THEN AttributeHit(dom)
        ELSE DEFAULT_ATTENDANCE_PATH

\* line 274
AttendanceUrl(href) ==
    IF startswith(href, kw_http) THEN href
    ELSE BASE_URL \o (IF startswith(href, <<"/">>) THEN href ELSE <<"/">> \o href)

\* the strings get_attendance() returns, as their leading words
MSG_CANNOT_REACH == <<"CROSS", "Cannot", "reach", "MGIT", "portal">>
MSG_LOGIN_POST_FAILED == <<"CROSS", "Login", "POST", "failed">>
MSG_LOGIN_FAILED == <<"CROSS", "Login", "failed!", "Check", "your", "MGIT", "username">>
MSG_404_ENDPOINTS == <<"CROSS", "Attendance", "page", "returned", "404.", "Possible", "endpoints">>
MSG_404 == <<"CROSS", "Could", "not", "access", "attendance", "page", "(Status:", "404).">>
MSG_PAGE_ERROR == <<"CROSS", "Could", "not", "access", "attendance", "page", "(Status:">>
MSG_TIMEOUT == <<"STOPWATCH", "Request", "timed", "out.">>
MSG_CONNECTION == <<"GLOBE", "Connection", "error.">>
MSG_ERROR == <<"CROSS", "Error:">>
MSG_DEBUG == <<"WARNING", "Attendance", "fetch", "failed", "for">>

Outcome(msg, st) == [msg |-> msg, status |-> st]

\* lines 296-302: the except clauses of get_attendance()
ExceptionResult_no_timeout_clause(kind) ==
    IF kind = "connection" THEN Outcome(MSG_CONNECTION, "connection_error")
    ELSE Outcome(MSG_ERROR, "unexpected_error")
ExceptionResult(kind) ==
    IF kind = "timeout" THEN Outcome(MSG_TIMEOUT, "timeout")
    ELSE IF kind = "connection" THEN Outcome(MSG_CONNECTION, "connection_error")
    ELSE Outcome(MSG_ERROR, "unexpected_error")

\* line 411
error_prefixes ==
    { <<"CROSS">>, <<"WARNING", "Could", "not", "extract">>, <<"STOPWATCH">>, <<"GLOBE">>,
      <<"WARNING", "Could", "not", "access">>, <<"CROSS", "Selenium", "fetch", "failed">> }

\* line 412
IsError_cross_only(text) == startswith(text, <<"CROSS">>)
IsError(text) == \E p \in error_prefixes : startswith(text, p)

\* ------------------------------------------------------ portal responses
FormActions == { <<>>, <<"/", "l", "o", "g", "i", "n", ".", "p", "h", "p">>, <<"l", "o", "g", "i", "n", ".", "p", "h", "p">>, <<"h", "t", "t", "p", ":", "/", "/", "s", "s", "o", ".", "m", "g", "i", "t", "/", "l", "o", "g", "i", "n">> }

A(href, text) == Element("a", text, "href" :> href)

LoginPages ==
    { <<Element("div", <<"I", "n", "v", "a", "l", "i", "d", " ", "c", "r", "e", "d", "e", "n", "t", "i", "a", "l", "s">>, NoAttrs)>>,
      <<Element("div", <<"I", "N", "V", "A", "L", "I", "D", " ", "C", "R", "E", "D", "E", "N", "T", "I", "A", "L", "S">>, NoAttrs)>>,
      <<Element("div", <<"i", "n", "v", "a", "l", "i", "d", " ", "c", "r", "e", "d", "e", "n", "t", "i", "a", "l", "s">>, NoAttrs)>>,
      <<Element("div", <<"I", "n", "c", "o", "r", "r", "e", "c", "t", " ", "p", "a", "s", "s", "w", "o", "r", "d">>, NoAttrs)>>,
      <<Element("div", <<"U", "n", "a", "u", "t", "h", "o", "r", "i", "z", "e", "d">>, NoAttrs)>>,
      <<Element("div", <<"L", "o", "g", "i", "n", " ", "F", "a", "i", "l", "e", "d">>, NoAttrs)>>,
      <<Element("div", <<"S", "e", "r", "v", "e", "r", " ", "e", "r", "r", "o", "r">>, NoAttrs)>>,
      <<Element("div", <<"E", "n", "t", "e", "r", " ", "c", "a", "p", "t", "c", "h", "a">>, NoAttrs)>>,
      <<Element("div", <<"P", "l", "e", "a", "s", "e", " ", "l", "o", "g", "i", "n">>, NoAttrs)>>,
      <<>>,
      <<A(<<"/", "A", "t", "t", "e", "n", "d", "a", "n", "c", "e", "/", "v", "i", "e", "w">>, <<"R", "e", "p", "o", "r", "t">>)>>,
      <<A(<<"h", "t", "t", "p", ":", "/", "/", "p", "o", "r", "t", "a", "l", "/", "a", "t", "t", "e", "n", "d", "a", "n", "c", "e">>, <<"R", "e", "p", "o", "r", "t">>)>>,
      <<A(<<"a", "t", "t", "e", "n", "d", "a", "n", "c", "e", ".", "p", "h", "p">>, <<"R", "e", "p", "o", "r", "t">>)>>,
      <<Element("div", <<"M", "e", "n", "u">>, "data-url" :> <<"/", "a", "p", "i", "/", "a", "t", "t", "e", "n", "d", "a", "n", "c", "e">>), A(<<"/", "a", "t", "t">>, <<"A", "t", "t", "e", "n", "d", "a", "n", "c", "e">>)>>,
      <<Element("a", <<"A", "t", "t", "e", "n", "d", "a", "n", "c", "e">>, "onclick" :> <<"g", "o", "A", "t", "t", "e", "n", "d", "a", "n", "c", "e", "(", ")">>)>>,
      <<Element("a", <<"A", "t", "t", "e", "n", "d", "a", "n", "c", "e">>, NoAttrs)>>,
      <<A(<<>>, <<"A", "t", "t", "e", "n", "d", "a", "n", "c", "e">>), Element("div", <<"M", "e", "n", "u">>, "data-href" :> <<"/", "x", "/", "a", "t", "t", "e", "n", "d", "a", "n", "c", "e">>)>>,
      <<A(<<"/", "h", "o", "m", "e">>, <<"H", "o", "m", "e">>), Element("span", <<"O", "p", "e", "n">>, "onclick" :> <<"o", "p", "e", "n", "(", "/", "a", "t", "t", "e", "n", "d", "a", "n", "c", "e", ")">>)>>,
      <<A(<<"/", "s", "t", "u", "d", "e", "n", "t", "/", "a", "t", "t", ".", "p", "h", "p">>, <<"M", "y", " ", "A", "t", "t", "e", "n", "d", "a", "n", "c", "e">>), A(<<"/", "a", "t", "t", "e", "n", "d", "a", "n", "c", "e", "2">>, <<"O", "t", "h", "e", "r">>)>>,
      <<Element("div", <<"M", "e", "n", "u">>, ("data-target" :> <<"#", "a", "t", "t", "e", "n", "d", "a", "n", "c", "e">>) @@ ("data-href" :> <<"/", "y", "/", "a", "t", "t", "e", "n", "d", "a", "n", "c", "e">>)),
        Element("div", <<"M", "o", "r", "e">>, "data-url" :> <<"/", "z", "/", "a", "t", "t", "e", "n", "d", "a", "n", "c", "e">>)>> }

\* the responses of the login POST: every page with status 200, two with an error status
ErrorPages ==
    { <<Element("div", <<"I", "n", "v", "a", "l", "i", "d", " ", "c", "r", "e", "d", "e", "n", "t", "i", "a", "l", "s">>, NoAttrs)>>,
      <<A(<<"/", "s", "t", "u", "d", "e", "n", "t", "/", "a", "t", "t", ".", "p", "h", "p">>, <<"M", "y", " ", "A", "t", "t", "e", "n", "d", "a", "n", "c", "e">>)>> }
LoginResponses ==
    [status : {200}, dom : LoginPages] \cup [status : {401, 500}, dom : ErrorPages]

PipelineDocs ==
    { <<>>,
      <<Block("p", <<"M", "a", "t", "h", "s">>), Block("span", <<"8", "2", "%">>)>>,
      <<Block("div", <<"A", "t", "t", "e", "n", "d", "a", "n", "c", "e">>)>>,
      <<Block("p", <<"C", "h", "e", "m", ":", " ", "7", "4", ".", "9", "%", " ", "P", "h", "y", "s", ":", " ", "6", "4", ".", "9", "%">>)>> }

NoResponse == [status |-> 0, dom |-> <<>>]

\* ------------------------------------------------------------- the run
Init ==
    /\ pc = "main"
    /\ USE_SELENIUM \in BOOLEAN
    /\ DEV_WHATSAPP_NUMBER \in BOOLEAN
    /\ netlog = <<>>
    /\ probe = 0
    /\ login_url = <<>>
    /\ login_resp = NoResponse
    /\ attendance_url = <<>>
    /\ attendance = NoResult
    /\ status = "none"
    /\ sent = <<>>
    /\ caller = "none"
    /\ html = <<>>
    /\ ppc = "idle"
    /\ attendance_data = <<>>
    /\ ran = <<>>
    /\ matches = <<>>
    /\ candidates = <<>>
    /\ unique = <<>>
    /\ message = NoResult

Net(op, outcome) == [op |-> op, outcome |-> outcome]
Failures == {"timeout", "connection", "error"}

\* a return statement of get_attendance()
Return(o) ==
    /\ attendance' = Result(o.msg, <<>>, 0)
    /\ status' = o.status
    /\ pc' = "decide"

\* lines 166-174 and fetch_with_selenium(), lines 85-156
SeleniumFetch ==
    /\ pc = "main"
    /\ USE_SELENIUM
    /\ \/ \E doc \in PipelineDocs :
            /\ netlog' = Append(netlog, Net("selenium", "response"))
            /\ ParserStart(doc)
            /\ caller' = "selenium"
            /\ pc' = "parsing"
       \/ \E f \in {"timeout", "connection"} :
            /\ netlog' = Append(netlog, Net("selenium", f))
            /\ pc' = "requests"
            /\ UNCHANGED <<caller, qvars>>
    /\ UNCHANGED <<USE_SELENIUM, DEV_WHATSAPP_NUMBER, probe, login_url, login_resp,
                   attendance_url, attendance, status, sent>>

\* lines 176-219: the GET of the portal base and the login form
GetBase ==
    /\ pc = "requests" \/ (pc = "main" /\ ~USE_SELENIUM)
    /\ \/ \E f \in Failures :
            /\ netlog' = Append(netlog, Net("get_base", f))
            /\ Return(ExceptionResult(f))
            /\ UNCHANGED <<probe, login_url>>
       \/ /\ netlog' = Append(netlog, Net("get_base", "response"))
          /\ \/ /\ Return(Outcome(MSG_CANNOT_REACH, "portal_unreachable"))
                /\ UNCHANGED <<probe, login_url>>
             \/ \E form_action \in FormActions :
                  /\ UNCHANGED <<attendance, status>>
                  /\ IF form_action # <<>>
                     THEN /\ login_url' = LoginUrl(form_action)
                          /\ pc' = "post"
                          /\ UNCHANGED probe
                     ELSE /\ pc' = "probe"
                          /\ probe' = 1
                          /\ UNCHANGED login_url
    /\ UNCHANGED <<USE_SELENIUM, DEV_WHATSAPP_NUMBER, login_resp, attendance_url, sent,
                   caller, qvars>>

\* lines 222-234: one HEAD of a candidate login URL
HeadProbe ==
    /\ pc = "probe"
    /\ \E out \in {"found", "missing", "timeout"} :
         /\ netlog' = Append(netlog, Net("head", IF out \in Failures THEN out ELSE "response"))
         /\ IF out = "found"
            THEN /\ login_url' = BASE_URL \o LOGIN_CANDIDATES[probe]
                 /\ pc' = "post"
                 /\ UNCHANGED probe
            ELSE IF probe < Len(LOGIN_CANDIDATES)
            THEN /\ probe' = probe + 1
                 /\ UNCHANGED <<pc, login_url>>
            ELSE /\ login_url' = BASE_URL \o DEFAULT_LOGIN_PATH
                 /\ pc' = "post"
                 /\ UNCHANGED probe
    /\ UNCHANGED <<USE_SELENIUM, DEV_WHATSAPP_NUMBER, login_resp, attendance_url, attendance,
                   status, sent, caller, qvars>>

\* lines 236-246: the login POST and the checks of its response
PostLogin ==
    /\ pc = "post"
    /\ \/ \E f \in Failures :
            /\ netlog' = Append(netlog, Net("post_login", f))
            /\ Return(ExceptionResult(f))
            /\ UNCHANGED login_resp
       \/ \E r \in LoginResponses :
            /\ netlog' = Append(netlog, Net("post_login", "response"))
            /\ login_resp' = r
            /\ IF r.status >= 400
               THEN Return(Outcome(MSG_LOGIN_POST_FAILED, "login_post_failed"))
               ELSE IF LoginRejected(RawText(r.dom))
               THEN Return(Outcome(MSG_LOGIN_FAILED, "login_failed"))
               ELSE /\ pc' = "resolve"
                    /\ UNCHANGED <<attendance, status>>
    /\ UNCHANGED <<USE_SELENIUM, DEV_WHATSAPP_NUMBER, probe, login_url, attendance_url, sent,
                   caller, qvars>>

\* lines 248-275: the attendance URL
Resolve ==
    /\ pc = "resolve"
    /\ attendance_url' = AttendanceUrl(ResolveHref(login_resp.dom))
    /\ pc' = "fetch"
    /\ UNCHANGED <<USE_SELENIUM, DEV_WHATSAPP_NUMBER, netlog, probe, login_url, login_resp,
                   attendance, status, sent, caller, qvars>>

\* lines 277-294: the GET of the attendance page
GetAttendancePage ==
    /\ pc = "fetch"
    /\ \/ \E f \in Failures :
            /\ netlog' = Append(netlog, Net("get_attendance", f))
            /\ Return(ExceptionResult(f))
            /\ UNCHANGED <<caller, qvars>>
       \/ \E o \in { Outcome(MSG_404_ENDPOINTS, "attendance_404"),
                     Outcome(MSG_404, "attendance_404"),
                     Outcome(MSG_PAGE_ERROR, "attendance_page_error") } :
            /\ netlog' = Append(netlog, Net("get_attendance", "response"))
            /\ Return(o)
            /\ UNCHANGED <<caller, qvars>>
       \/ \E doc \in PipelineDocs :
            /\ netlog' = Append(netlog, Net("get_attendance", "response"))
            /\ ParserStart(doc)
            /\ caller' = "requests"
            /\ pc' = "parsing"
            /\ UNCHANGED <<attendance, status>>
    /\ UNCHANGED <<USE_SELENIUM, DEV_WHATSAPP_NUMBER, probe, login_url, login_resp,
                   attendance_url, sent>>

\* lines 170-174 and 294-302: parse_attendance_html() returns or raises
ParseReturn ==
    /\ pc = "parsing"
    /\ ppc \in {"returned", "raised"}
    /\ ppc' = "idle"
    /\ IF ppc = "returned"
       THEN /\ attendance' = message
            /\ status' = IF message.head = MSG_REPORT THEN "ok" ELSE "extraction_empty"
            /\ pc' = "decide"
       ELSE IF caller = "selenium"
       THEN /\ pc' = "requests"
            /\ UNCHANGED <<attendance, status>>
       ELSE Return(ExceptionResult("error"))
    /\ UNCHANGED <<USE_SELENIUM, DEV_WHATSAPP_NUMBER, netlog, probe, login_url, login_resp,
                   attendance_url, sent, caller, html, attendance_data, ran, matches,
                   candidates, unique, message>>

Message(to, body) == [to |-> to, body |-> body]

\* lines 410-430: main() routes the result
Decide ==
    /\ pc = "decide"
    /\ pc' = "done"
    /\ IF IsError(attendance.head)
       THEN IF DEV_WHATSAPP_NUMBER
            THEN sent' = Append(sent, Message("DEV_WHATSAPP_NUMBER", MSG_DEBUG \o attendance.head))
            ELSE UNCHANGED sent
       ELSE sent' = Append(sent, Message("YOUR_WHATSAPP_NUMBER", attendance.head))
    /\ UNCHANGED <<USE_SELENIUM, DEV_WHATSAPP_NUMBER, netlog, probe, login_url, login_resp,
                   attendance_url, attendance, status, caller, qvars>>

Next ==
    \/ SeleniumFetch
    \/ GetBase
    \/ HeadProbe
    \/ PostLogin
    \/ Resolve
    \/ GetAttendancePage
    \/ Method1
    \/ Method2
    \/ Method3
    \/ NotFound
    \/ DedupTrim
    \/ Build
    \/ ParseReturn
    \/ Decide

Spec == Init /\ [][Next]_vars

\* ================================================================== claims
PRIMARY == "YOUR_WHATSAPP_NUMBER"
DIAGNOSTIC == "DEV_WHATSAPP_NUMBER"
Ended == pc \in {"decide", "done"}
LoginAnswered == login_resp.status # 0
LoginBody == lower(RawText(login_resp.dom))
AttendanceFetched == \E i \in DOMAIN netlog : netlog[i].op = "get_attendance"

\* C1: a result whose status is not ok is never sent to the primary audience; once the
\* run is over it has been sent to the diagnostic audience alone, or to nobody when
\* DEV_WHATSAPP_NUMBER is not set.
C1_NonOkNeverPrimary ==
    /\ \A i \in DOMAIN sent : sent[i].to = PRIMARY => status = "ok"
    /\ (pc = "done" /\ status # "ok") =>
          /\ \A i \in DOMAIN sent : sent[i].to = DIAGNOSTIC
          /\ Len(sent) = IF DEV_WHATSAPP_NUMBER THEN 1 ELSE 0

C1_Witness ==
    /\ pc = "done"
    /\ status = "timeout"
    /\ sent = <<Message(DIAGNOSTIC, MSG_DEBUG \o MSG_TIMEOUT)>>

kw_invalid_credentials == <<"i", "n", "v", "a", "l", "i", "d", " ", "c", "r", "e", "d", "e", "n", "t", "i", "a", "l", "s">>
SaysInvalidCredentials == LoginAnswered /\ Contains(LoginBody, kw_invalid_credentials)

\* C2 as stated: a login response whose body contains "invalid credentials" in any
\* letter case ends the run with the login-failed status, and the attendance page is
\* never fetched.
C2_Original ==
    SaysInvalidCredentials => (Ended /\ status = "login_failed" /\ ~AttendanceFetched)

\* C2 as amended: such a response ends the run without a GET of the attendance page,
\* with the login-failed status when its HTTP status is below 400 and with the
\* login-POST-failed status when it is 400 or more.
C2_InvalidCredentialsEndRun ==
    SaysInvalidCredentials =>
        /\ Ended
        /\ ~AttendanceFetched
        /\ status = IF login_resp.status >= 400 THEN "login_post_failed" ELSE "login_failed"

C2_Witness ==
    /\ SaysInvalidCredentials
    /\ ~Contains(RawText(login_resp.dom), kw_invalid_credentials)
    /\ login_resp.status = 200
    /\ pc = "done"
    /\ status = "login_failed"

\* C3: every record the parser keeps has a percentage between 0 and 100.
C3_PercentInRange ==
    \A i \in DOMAIN attendance_data :
        attendance_data[i].percentage >= 0 /\ attendance_data[i].percentage <= 100 * Scale

Deduplicated == ppc \in {"build", "returned"} /\ candidates # <<>>
PairsOf(data) == { data[i] : i \in DOMAIN data }
Distinct(data) == \A i, j \in DOMAIN data : i # j => data[i] # data[j]

\* C4: the final records hold no (subject, percentage) pair twice, and every distinct
\* pair among the candidates survives the deduplication.
C4_DedupByPair ==
    Deduplicated =>
        /\ Distinct(unique)
        /\ Distinct(attendance_data)
        /\ PairsOf(unique) = PairsOf(candidates)

C4_Witness ==
    /\ Deduplicated
    /\ Len(unique) < Len(candidates)
    /\ \E i, j \in DOMAIN unique :
          /\ unique[i].subject = unique[j].subject
          /\ unique[i].percentage # unique[j].percentage

\* the distinct records of data, in the order of their first occurrence
RECURSIVE FirstSeen(_, _)
FirstSeen(data, i) ==
    IF i > Len(data) THEN <<>>
    ELSE (IF \A j \in 1..(i - 1) : data[j] # data[i] THEN <<data[i]>> ELSE <<>>)
         \o FirstSeen(data, i + 1)

\* every candidate the winning strategy found
Found == IF matches # <<>> THEN matches ELSE candidates

\* C5 as stated: the final records are the first 20 distinct candidates of the winning
\* strategy, in the order of their first occurrence.
C5_Original ==
    Deduplicated =>
        /\ Len(attendance_data) <= 20
        /\ attendance_data = Take(FirstSeen(Found, 1), 20)

\* C5 as amended: the final records are the first 20 distinct records among the
\* candidates appended to attendance_data, in the order of their first occurrence; the
\* free-text scan appends its first 20 matches only.
C5_FirstTwentyDistinct ==
    Deduplicated =>
        /\ Len(attendance_data) <= 20
        /\ attendance_data = Take(FirstSeen(candidates, 1), 20)
        /\ candidates = IF ran[Len(ran)].method = 3 THEN Take(matches, 20) ELSE Found

C5_Witness ==
    /\ ppc = "returned"
    /\ Len(FirstSeen(candidates, 1)) > 20
    /\ Len(attendance_data) = 20

\* C6: the strategies run in the order 1, 2, 3; a strategy runs only when every earlier
\* one yielded nothing, the scan stops at the first that yields a record, and the
\* candidates all come from that one.
C6_FirstStrategyWins ==
    /\ \A i \in DOMAIN ran : ran[i].method = i
    /\ \A i \in DOMAIN ran : i < Len(ran) => ran[i].yielded = 0
    /\ ppc \in {"check", "build", "returned"} =>
          /\ ran # <<>>
          /\ ran[Len(ran)].yielded > 0 \/ Len(ran) = 3
    /\ ppc = "check" => Len(attendance_data) = ran[Len(ran)].yielded

C6_Witness ==
    /\ ppc = "check"
    /\ Len(ran) = 2
    /\ ran[2].yielded > 0

NamesAttendance(s) == Contains(lower(s), kw_attendance)
Least(S) == CHOOSE i \in S : \A j \in S : i <= j
\* the endpoint resolution has run
Resolved == pc = "fetch" \/ AttendanceFetched

\* the first attribute hit of the page, or <<>>
C7_AttributeValue(dom) ==
    LET named(i) == { n \in 1..4 : NamesAttendance(Attr(dom[i], HINT_ATTRS[n])) }
        elems == { i \in DOMAIN dom : named(i) # {} }
    IN  IF elems = {} THEN <<>> ELSE Attr(dom[Least(elems)], HINT_ATTRS[Least(named(Least(elems)))])

C7_Url(href) ==
    IF startswith(href, kw_http) THEN href
    ELSE IF startswith(href, <<"/">>) THEN BASE_URL \o href
    ELSE BASE_URL \o <<"/">> \o href

\* C7 as stated: the URL is the href of the first anchor whose href or text names
\* attendance, else the first attribute hit, else the default path; an attribute hit is
\* never preferred over an anchor hit.
C7_Original ==
    Resolved =>
        LET dom == login_resp.dom
            anchors == { i \in DOMAIN dom :
                           dom[i].tag = "a" /\ (NamesAttendance(Attr(dom[i], "href"))
                                                  \/ NamesAttendance(dom[i].text)) }
        IN  attendance_url =
               C7_Url(IF anchors # {} THEN Attr(dom[Least(anchors)], "href")
                      ELSE IF C7_AttributeValue(dom) # <<>> THEN C7_AttributeValue(dom)
                      ELSE DEFAULT_ATTENDANCE_PATH)

\* C7 as amended: an anchor counts only when it carries an href attribute; the URL is
\* the href of the first such anchor naming attendance when that href is not empty,
\* else the first attribute hit, else the default path.
C7_Resolution ==
    Resolved =>
        LET dom == login_resp.dom
            anchors == { i \in DOMAIN dom :
                           /\ dom[i].tag = "a"
                           /\ "href" \in DOMAIN dom[i].attrs
                           /\ (NamesAttendance(Attr(dom[i], "href")) \/ NamesAttendance(dom[i].text)) }
            anchor_href == IF anchors # {} THEN Attr(dom[Least(anchors)], "href") ELSE <<>>
        IN  attendance_url =
               C7_Url(IF anchor_href # <<>> THEN anchor_href
                      ELSE IF C7_AttributeValue(dom) # <<>> THEN C7_AttributeValue(dom)
                      ELSE DEFAULT_ATTENDANCE_PATH)

C7_Witness ==
    /\ pc = "fetch"
    /\ Len(login_resp.dom) = 2
    /\ login_resp.dom[1].tag = "div"
    /\ NamesAttendance(Attr(login_resp.dom[1], "data-url"))
    /\ login_resp.dom[2].tag = "a"
    /\ attendance_url = BASE_URL \o Attr(login_resp.dom[2], "href")

\* C8: a record in [0, 100] is good iff p >= 75, warn iff 65 <= p < 75 and critical iff
\* p < 65.
C8_Tiers ==
    \A i \in DOMAIN message.lines :
        LET p == message.lines[i].pct
            tier == message.lines[i].emoji
        IN  (p >= 0 /\ p <= 100 * Scale) =>
               /\ tier = "GOOD" <=> p >= 75 * Scale
               /\ tier = "WARN" <=> (p >= 65 * Scale /\ p < 75 * Scale)
               /\ tier = "CRITICAL" <=> p < 65 * Scale

C8_Witness ==
    /\ ppc = "returned"
    /\ \E i, j \in DOMAIN message.lines :
          /\ message.lines[i].pct = 75 * Scale /\ message.lines[i].emoji = "GOOD"
          /\ message.lines[j].pct = 65 * Scale /\ message.lines[j].emoji = "WARN"

Broke(e) == e.outcome \in {"timeout", "connection"}
StatusOf(e) == IF e.outcome = "timeout" THEN "timeout" ELSE "connection_error"

\* C9 as stated: the first network operation that times out or fails to connect is the
\* last one of the run, and the run ends with the matching status.
C9_Original ==
    \A i \in DOMAIN netlog :
        Broke(netlog[i]) => (i = Len(netlog) /\ Ended /\ status = StatusOf(netlog[i]))

\* C9 as amended: that holds of the GETs and the POST of the requests session; a failed
\* browser fetch is followed by the GET of the portal base, and a failed HEAD probe by
\* the next probe or the login POST.
C9_SessionFailureEndsRun ==
    \A i \in DOMAIN netlog :
        Broke(netlog[i]) =>
            /\ netlog[i].op \in {"get_base", "post_login", "get_attendance"} =>
                  (i = Len(netlog) /\ Ended /\ status = StatusOf(netlog[i]))
            /\ (netlog[i].op = "selenium" /\ i < Len(netlog)) => netlog[i + 1].op = "get_base"
            /\ (netlog[i].op = "head" /\ i < Len(netlog)) =>
                  netlog[i + 1].op \in {"head", "post_login"}

C9_Witness ==
    /\ pc = "done"
    /\ Len(netlog) = 3
    /\ netlog[1] = Net("selenium", "timeout")
    /\ netlog[3] = Net("post_login", "connection")
    /\ status = "connection_error"

C10_SpecIndicators ==
    { <<"i", "n", "v", "a", "l", "i", "d">>, <<"i", "n", "c", "o", "r", "r", "e", "c", "t">>, <<"u", "n", "a", "u", "t", "h", "o", "r", "i", "z", "e", "d">>, <<"l", "o", "g", "i", "n", " ", "f", "a", "i", "l", "e", "d">>, <<"c", "a", "p", "t", "c", "h", "a">>, <<"p", "l", "e", "a", "s", "e", " ", "l", "o", "g", "i", "n">> }
C10_CodeIndicators ==
    { <<"i", "n", "v", "a", "l", "i", "d">>, <<"i", "n", "c", "o", "r", "r", "e", "c", "t">>, <<"u", "n", "a", "u", "t", "h", "o", "r", "i", "z", "e", "d">>, <<"l", "o", "g", "i", "n", " ", "f", "a", "i", "l", "e", "d">>, <<"e", "r", "r", "o", "r">> }
Indicates(words) == \E k \in words : Contains(LoginBody, k)
Continued == pc \in {"resolve", "fetch"} \/ AttendanceFetched

\* C10 as stated: the login response is classified login-failed iff its body holds one
\* of invalid, incorrect, unauthorized, login failed, captcha, please login; otherwise
\* the run goes on to the endpoint resolution and the attendance fetch.
C10_Original ==
    LoginAnswered =>
        /\ status = "login_failed" <=> Indicates(C10_SpecIndicators)
        /\ ~Indicates(C10_SpecIndicators) => Continued

\* C10 as amended: the indicators are invalid, incorrect, unauthorized, login failed,
\* error, and they are looked for only when the HTTP status is below 400.
C10_LoginClassification ==
    LoginAnswered =>
        /\ status = "login_failed" <=> (login_resp.status < 400 /\ Indicates(C10_CodeIndicators))
        /\ (login_resp.status < 400 /\ ~Indicates(C10_CodeIndicators)) => Continued

C10_Witness ==
    /\ LoginAnswered
    /\ Indicates({ <<"c", "a", "p", "t", "c", "h", "a">> })
    /\ AttendanceFetched
    /\ pc = "done"

Raised == ppc = "raised"
Returned == ppc = "returned"
AllYieldNothing == Len(ran) = 3 /\ \A i \in DOMAIN ran : ran[i].yielded = 0

\* C11: for every input page parse_attendance_html() returns, and what it returns is
\* either the not-found result, exactly when all three strategies yield zero records,
\* or a report built from a non-empty record list; the average is never computed over
\* an empty list, and the not-found result is never sent to the primary audience.
C11_ReturnsNotFoundOrReport ==
    /\ ~Raised
    /\ Returned =>
          /\ message.head \in {MSG_NOT_FOUND, MSG_REPORT}
          /\ message.head = MSG_NOT_FOUND <=> AllYieldNothing
          /\ message.head = MSG_REPORT =>
                (attendance_data # <<>> /\ Len(message.lines) = Len(attendance_data))
    /\ ppc = "build" => attendance_data # <<>>
    /\ \A i \in DOMAIN sent : sent[i].to = PRIMARY => sent[i].body # MSG_NOT_FOUND
====
